---- MODULE Spec2Model ----
(***************************************************************************)
(* A model of the SKK conversion controller of go-readline-skk             *)
(* (src/main.go).  Text is modelled as Go sees it: a string is a sequence  *)
(* of runes, a rune is its code point, a key is the code of the key that   *)
(* was pressed.  Candidate lists are Go slices: a pointer into a heap of   *)
(* backing arrays plus a length, the capacity being the array's length.    *)
(***************************************************************************)
EXTENDS Integers, Sequences, FiniteSets, TLC

(* ------------------------------ bounds --------------------------------- *)

\* cells the user may type into one line before accepting it
MaxBuf == 3
\* insertions into / removals from the User store in one session
MaxEdits == 1
\* backing arrays alive at the same time
MaxAddr == 9

(* --------------------------- program constants ------------------------- *)

markerWhite == 9661
markerBlack == 9660
listingStartIndex == 4

\* "asdfjkl:" (the direct selection keys of the paging prompt)
pagingKeys == <<97, 115, 100, 102, 106, 107, 108, 58>>

CtrlG == 7
CtrlJ == 10
CtrlM == 13
Space == 32

\* runes used by the model
Semicolon == 59
Sharp == 35
HiraA == 12354
KataA == 12450

(* ------------------------------- text ---------------------------------- *)

\* strings.Cut(s, ";"): the part of s before the first separator
RECURSIVE Cut(_)
Cut(s) ==
    IF s = <<>> THEN <<>>
    ELSE IF Head(s) = Semicolon THEN <<>>
    ELSE <<Head(s)>> \o Cut(Tail(s))

\* strings.Index("asdfjkl:", key)
pagingIndex(key) ==
    IF \E i \in 1..Len(pagingKeys) : pagingKeys[i] = key
    THEN (CHOOSE i \in 1..Len(pagingKeys) : pagingKeys[i] = key) - 1
    ELSE -1

isDigit(r) == r >= 48 /\ r <= 57

kansuji(r) ==
    CASE r = 48 -> 12295
      [] r = 49 -> 19968
      [] r = 50 -> 20108
      [] r = 51 -> 19977
      [] r = 52 -> 22235
      [] r = 53 -> 20116
      [] r = 54 -> 20845
      [] r = 55 -> 19971
      [] r = 56 -> 20843
      [] r = 57 -> 20061

numberToKanji(s) == [i \in 1..Len(s) |-> kansuji(s[i])]

hanToZen(c) ==
    IF c < 32 \/ c >= 127 THEN c
    ELSE IF c = 32 THEN 12288
    ELSE c - 32 + 65280

hanToZenString(s) == [i \in 1..Len(s) |-> hanToZen(s[i])]

\* rxNumber.FindStringIndex: the leftmost, longest run of digits, as the
\* half-open interval [lo, hi) of 0-based positions; lo = -1 when none
rxNumberLoc(s) ==
    IF \A i \in 1..Len(s) : ~isDigit(s[i]) THEN [lo |-> -1, hi |-> -1]
    ELSE LET first == CHOOSE i \in 1..Len(s) :
                          isDigit(s[i]) /\ \A j \in 1..(i-1) : ~isDigit(s[j])
             stop  == CHOOSE k \in first..Len(s) :
                          /\ \A j \in first..k : isDigit(s[j])
                          /\ (k = Len(s) \/ ~isDigit(s[k+1]))
         IN [lo |-> first - 1, hi |-> stop]

\* the digits a numeral style code may carry: #[0123459]
isStyle(r) == r \in {48, 49, 50, 51, 52, 53, 57}

\* the style switch with case '1' missing: the digits stay half-width
numeralStyleHalf(code, number) ==
    CASE code = 50 -> numberToKanji(number)
      [] code = 51 -> numberToKanji(number)
      [] OTHER -> number

numeralStyle(code, number) ==
    CASE code = 48 -> number
      [] code = 49 -> hanToZenString(number)
      [] code = 50 -> numberToKanji(number)
      [] code = 51 -> numberToKanji(number)
      [] OTHER -> number

\* rxToNumber.ReplaceAllStringFunc(s, ...): left to right, non overlapping
RECURSIVE expandNumerals(_, _)
expandNumerals(s, number) ==
    IF s = <<>> THEN <<>>
    ELSE IF Len(s) >= 2 /\ s[1] = Sharp /\ isStyle(s[2])
    THEN numeralStyle(s[2], number) \o expandNumerals(SubSeq(s, 3, Len(s)), number)
    ELSE <<Head(s)>> \o expandNumerals(Tail(s), number)

(* --------------------------- slices and heap --------------------------- *)

Addr == 1..MaxAddr

\* the nil slice
nilSlice == [ptr |-> 0, len |-> 0]

\* the elements a slice shows
elems(h, s) == IF s.ptr = 0 THEN <<>> ELSE SubSeq(h[s.ptr], 1, s.len)

cap(h, s) == IF s.ptr = 0 THEN 0 ELSE Len(h[s.ptr])

freeAddrs(h) == {a \in Addr : h[a] = <<>>}

newAddr(h) == CHOOSE a \in freeAddrs(h) : \A b \in freeAddrs(h) : a <= b

\* the capacity a full slice of capacity c grows to when one element is appended
growCap(c) == IF c = 0 THEN 1 ELSE 2 * c

zeros(n) == [i \in 1..n |-> <<>>]

\* make([]string, 0, n) followed by n appends of the elements of xs
makeList(h, xs) ==
    IF xs = <<>> THEN [heap |-> h, list |-> nilSlice]
    ELSE LET a == newAddr(h)
         IN [heap |-> [h EXCEPT ![a] = xs], list |-> [ptr |-> a, len |-> Len(xs)]]

\* append(s, x)
append(h, s, x) ==
    IF s.len < cap(h, s)
    THEN [heap |-> [h EXCEPT ![s.ptr][s.len + 1] = x],
          list |-> [ptr |-> s.ptr, len |-> s.len + 1]]
    ELSE LET a == newAddr(h)
             n == growCap(cap(h, s))
         IN [heap |-> [h EXCEPT ![a] = elems(h, s) \o <<x>> \o zeros(n - s.len - 1)],
             list |-> [ptr |-> a, len |-> s.len + 1]]

\* arrays no slice of the program refers to any more are reclaimed
collect(h, U, S, l) ==
    LET live == {U[r].ptr : r \in DOMAIN U} \cup {S[r].ptr : r \in DOMAIN S} \cup {l.ptr}
    IN [a \in Addr |-> IF a \in live THEN h[a] ELSE <<>>]

(* ------------------------------ lookup --------------------------------- *)

\* Mode._lookup: the User store shadows the System store
_lookup(U, S, src) ==
    IF src \in DOMAIN U THEN [list |-> U[src], ok |-> TRUE]
    ELSE IF src \in DOMAIN S THEN [list |-> S[src], ok |-> TRUE]
    ELSE [list |-> nilSlice, ok |-> FALSE]

\* lookup writing the expanded candidates over the stored list instead of
\* into a list of its own
lookupInPlace(U, S, h, src) ==
    LET exact == _lookup(U, S, src)
        loc   == rxNumberLoc(src)
        number == SubSeq(src, loc.lo + 1, loc.hi)
        key   == SubSeq(src, 1, loc.lo) \o <<Sharp>> \o SubSeq(src, loc.hi + 1, Len(src))
        ph    == _lookup(U, S, key)
        arr   == h[ph.list.ptr]
    IN IF exact.ok THEN [list |-> exact.list, ok |-> TRUE, heap |-> h]
       ELSE IF loc.lo < 0 THEN [list |-> nilSlice, ok |-> FALSE, heap |-> h]
       ELSE IF ~ph.ok THEN [list |-> nilSlice, ok |-> FALSE, heap |-> h]
       ELSE [list |-> ph.list, ok |-> TRUE,
             heap |-> [h EXCEPT ![ph.list.ptr] =
                          [i \in 1..Len(arr) |->
                              IF i <= ph.list.len THEN expandNumerals(arr[i], number)
                              ELSE arr[i]]]]

\* Mode.lookup: the exact entry, else the entry of the reading with its first
\* digit run replaced by '#', expanded into a list of its own
lookup(U, S, h, src) ==
    LET exact == _lookup(U, S, src)
        loc   == rxNumberLoc(src)
        number == SubSeq(src, loc.lo + 1, loc.hi)
        key   == SubSeq(src, 1, loc.lo) \o <<Sharp>> \o SubSeq(src, loc.hi + 1, Len(src))
        ph    == _lookup(U, S, key)
        old   == elems(h, ph.list)
        made  == makeList(h, [i \in 1..Len(old) |-> expandNumerals(old[i], number)])
    IN IF exact.ok THEN [list |-> exact.list, ok |-> TRUE, heap |-> h]
       ELSE IF loc.lo < 0 THEN [list |-> nilSlice, ok |-> FALSE, heap |-> h]
       ELSE IF ~ph.ok THEN [list |-> nilSlice, ok |-> FALSE, heap |-> h]
       ELSE [list |-> made.list, ok |-> TRUE, heap |-> made.heap]

(* ------------------------------ buffer --------------------------------- *)

\* Buffer.ReplaceAndRepaint(pos, str): the cells from pos to the cursor are
\* replaced by str and the cursor is put after str
ReplaceAndRepaint(st, pos, str) ==
    [st EXCEPT !.Buffer = SubSeq(st.Buffer, 1, pos) \o str
                            \o SubSeq(st.Buffer, st.Cursor + 1, Len(st.Buffer)),
               !.Cursor = pos + Len(str)]

\* Buffer.InsertAndRepaint(str): str is inserted at the cursor
InsertAndRepaint(st, str) == ReplaceAndRepaint(st, st.Cursor, str)

\* Buffer.SubString(start, end)
SubString(st, start, end) == SubSeq(st.Buffer, start + 1, end)

isMarker(ch) == ch = markerWhite \/ ch = markerBlack

\* the position of the nearest marker left of the cursor, or -1
seekMarker(st) ==
    IF \E i \in 0..(st.Cursor - 1) : isMarker(st.Buffer[i + 1])
    THEN CHOOSE i \in 0..(st.Cursor - 1) :
             /\ isMarker(st.Buffer[i + 1])
             /\ \A j \in (i + 1)..(st.Cursor - 1) : ~isMarker(st.Buffer[j + 1])
    ELSE -1

\* the cell at pos is removed and the cursor moves one cell left
removeOne(st, pos) ==
    [st EXCEPT !.Buffer = SubSeq(st.Buffer, 1, pos)
                            \o SubSeq(st.Buffer, pos + 2, Len(st.Buffer)),
               !.Cursor = st.Cursor - 1]

(* ------------------------------- state --------------------------------- *)

VARIABLES
    User,       \* Mode.User: reading -> slice
    System,     \* Mode.System: reading -> slice
    heap,       \* the backing arrays of the slices
    Buffer,     \* rl.Buffer.Buffer: the cells of the line
    Cursor,     \* rl.Buffer.Cursor
    keymap,     \* the binding table of the editor: key -> command
    saveMap,    \* Mode.saveMap: <<>> is nil
    kana,       \* Mode.kana: the name of the kana table, "" is nil
    pc,         \* where the controller waits for its next input
    markerPos,  \* henkanMode's markerPos
    source,     \* henkanMode's source
    postfix,    \* henkanMode's postfix
    list,       \* henkanMode's list
    current,    \* henkanMode's current
    scenario,   \* which dictionaries were loaded at session start
    edits,      \* how often the User store was changed
    advances,   \* Space presses since the first candidate was shown (-1: other keys came)
    last        \* what the last step did to the conversion (for the properties)

vars == <<User, System, heap, Buffer, Cursor, keymap, saveMap, kana, pc, markerPos,
          source, postfix, list, current, scenario, edits, advances, last>>

\* the keys of the model: ^G ^J ^M Space / 5 : A L X a l q s x
Keys == {CtrlG, CtrlJ, CtrlM, Space, 47, 53, 58, 65, 76, 88, 97, 108, 113, 115, 120}

\* the part of the state the command handlers work on; evalKey, evalBuf and
\* evalCur note the key eval was called with and the line it was called on
machine ==
    [Buffer |-> Buffer, Cursor |-> Cursor, keymap |-> keymap, saveMap |-> saveMap,
     kana |-> kana, heap |-> heap, pc |-> pc, markerPos |-> markerPos, source |-> source,
     postfix |-> postfix, list |-> list, current |-> current,
     evalKey |-> -1, evalBuf |-> <<>>, evalCur |-> 0]

(* ----------------------------- commands -------------------------------- *)

\* a command: its name, the key or rune it was made for and, for a romaji
\* command, the kana table it was made with
command(name, key) == [name |-> name, key |-> key, kana |-> ""]

\* the bindings of the host editor before the input method is enabled:
\* printable keys insert themselves, Enter accepts the line, and Setup has
\* bound ^J to the command that enables kana input
hostKeyMap ==
    [k \in Keys |->
        IF k = CtrlM THEN command("ACCEPT_LINE", 0)
        ELSE IF k = CtrlJ THEN command("SKK_MODE", 0)
        ELSE IF k < Space THEN command("NOP", 0)
        ELSE command("SELF_INSERT", k)]

\* the keys of romajiTrigger among the keys of the model
romajiTrigger == {97, 115, 120}

\* the keys of upperRomaji among the keys of the model
upperRomaji == {65}

\* unicode.ToLower of an upper case ASCII letter
toLower(c) == c + 32

\* _Kana.enableRomaji, for the table named K: the later bindings of a key
\* replace the earlier ones
enableRomaji(K, km) ==
    [k \in Keys |->
        IF k \in upperRomaji THEN command("SKK_HENKAN_TRIGGER", toLower(k))
        ELSE IF k = 47 THEN command("SKK_ABBREV_MODE", 0)
        ELSE IF k = 113 THEN command("SKK_TOGGLE_KANA", 0)
        ELSE IF k \in romajiTrigger THEN [command("SKK_ROMAJI", k) EXCEPT !.kana = K]
        ELSE km[k]]

\* Mode.enableHiragana
enableHiragana(st) ==
    [st EXCEPT
        !.kana = "hiragana",
        !.keymap =
            [k \in Keys |->
                IF k = CtrlJ THEN command("SKK_KAKUTEI", 0)
                ELSE IF k = CtrlG THEN command("SKK_CANCEL", 0)
                ELSE IF k = 76 THEN command("SKK_JISX0208_LATIN_MODE", 0)
                ELSE IF k = 108 THEN command("SKK_LATIN_MODE", 0)
                ELSE IF k = Space THEN command("SKK_START_HENKAN", 0)
                ELSE enableRomaji("hiragana", st.keymap)[k]]]

\* backupKeyMap taking a new snapshot at every request
backupKeyMapAgain(st) == [st EXCEPT !.saveMap = st.keymap]

\* Mode.backupKeyMap: only the first request takes the snapshot
backupKeyMap(st) ==
    IF st.saveMap # <<>> THEN st ELSE [st EXCEPT !.saveMap = st.keymap]

\* Mode.restoreKeyMap
restoreKeyMap(st) ==
    [st EXCEPT !.keymap = [k \in Keys |-> IF k \in DOMAIN st.saveMap
                                           THEN st.saveMap[k] ELSE st.keymap[k]]]

cmdEnableRomaji(st) == enableHiragana(backupKeyMap(st))

cmdLatinMode(st) == restoreKeyMap(st)

\* the partner of a kana table
switchTo(K) == IF K = "hiragana" THEN "katakana" ELSE "hiragana"

\* Mode.cmdToggleKana
cmdToggleKana(st) ==
    [st EXCEPT !.kana = switchTo(st.kana),
               !.keymap = enableRomaji(switchTo(st.kana), st.keymap)]

\* Mode.cmdJis0208LatinMode: the printable keys insert their full-width
\* forms, ^J leaves the mode
cmdJis0208LatinMode(st) ==
    [st EXCEPT !.keymap =
        [k \in Keys |->
            IF k = CtrlJ THEN command("SKK_JISX0208_LATIN_KAKUTEI", 0)
            ELSE IF k >= Space /\ k < 127
                 THEN command("SKK_JISX0208_LATIN_INSERT", hanToZen(k))
            ELSE st.keymap[k]]]

\* the command cmdJis0208LatinMode binds to ^J
jis0208LatinKakutei(st) == cmdEnableRomaji(restoreKeyMap(st))

\* the kana tables, for the vowel a
kanaTable(K, key) ==
    IF key = 97 THEN (IF K = "katakana" THEN <<KataA>> ELSE <<HiraA>>) ELSE <<key>>

\* _Romaji.Call for a key that completes a syllable by itself
romajiCall(st, K, key) == InsertAndRepaint(st, kanaTable(K, key))

\* the default command of a printable key
selfInsert(st, key) == InsertAndRepaint(st, <<key>>)

\* the line is accepted and the next ReadLine starts on an empty line
acceptLine(st) == [st EXCEPT !.Buffer = <<>>, !.Cursor = 0]

(* ----------------------------- henkanMode ------------------------------ *)

\* the candidate at index i shown with its annotation
displayWhole(st, l, i) ==
    <<markerBlack>> \o elems(st.heap, l)[i + 1] \o st.postfix

\* what henkanMode shows for the candidate at index i (0-based)
display(st, l, i) ==
    <<markerBlack>> \o Cut(elems(st.heap, l)[i + 1]) \o st.postfix

\* henkanMode up to its first wait: Registering when the reading is unknown,
\* else the first candidate is shown and the controller waits in Selecting
henkanMode(st, mp, src, pf) ==
    LET r  == lookup(User, System, st.heap, src)
        s1 == [st EXCEPT !.markerPos = mp, !.source = src, !.postfix = pf,
                         !.heap = r.heap, !.list = r.list, !.current = 0]
    IN IF ~r.ok THEN [s1 EXCEPT !.pc = "registering"]
       ELSE [ReplaceAndRepaint(s1, mp, display(s1, r.list, 0)) EXCEPT !.pc = "selecting"]

\* the postfix of an okurigana trigger
triggerPostfix(K, key) ==
    IF key \in {97, 105, 117, 101, 111} THEN kanaTable(K, key) ELSE <<key>>

\* _Trigger.Call
triggerCall(st, key) ==
    LET mp == seekMarker(st)
    IN IF mp >= 0
       THEN henkanMode(st, mp, SubString(st, mp + 1, st.Cursor) \o <<key>>,
                       triggerPostfix(st.kana, key))
       ELSE romajiCall(InsertAndRepaint(st, <<markerWhite>>), st.kana, key)

cmdStartHenkan(st) ==
    LET mp == seekMarker(st)
    IN IF mp < 0 THEN InsertAndRepaint(st, <<Space>>)
       ELSE henkanMode(st, mp, SubString(st, mp + 1, st.Cursor), <<>>)

cmdKakutei(st) ==
    LET mp == seekMarker(st)
    IN IF mp < 0 THEN cmdLatinMode(st) ELSE removeOne(st, mp)

cmdCancel(st) ==
    LET mp == seekMarker(st)
    IN IF mp < 0 THEN cmdLatinMode(st) ELSE ReplaceAndRepaint(st, mp, <<>>)

\* Mode.cmdAbbrevMode: the host bindings are put back, a region is opened
\* and Space is bound to the command that converts it
cmdAbbrevMode(st) ==
    IF seekMarker(st) >= 0 THEN st
    ELSE LET r == InsertAndRepaint(restoreKeyMap(st), <<markerWhite>>)
         IN [r EXCEPT !.keymap[Space] = command("SKK_ABBREV_START_HENKAN", 0)]

\* the handler ends: the command cmdAbbrevMode bound to Space goes on behind
\* its call of cmdStartHenkan with cmdEnableRomaji
resumed(st) ==
    IF st.pc = "idle" /\ st.keymap[Space].name = "SKK_ABBREV_START_HENKAN"
    THEN cmdEnableRomaji(st) ELSE st

\* the command cmdAbbrevMode binds to Space, up to the first wait of the
\* conversion it starts
abbrevStartHenkan(st) == resumed(cmdStartHenkan(st))

\* Command.Call, by the name of the command
call(st, cmd) ==
    CASE cmd.name = "SELF_INSERT" -> selfInsert(st, cmd.key)
      [] cmd.name = "ACCEPT_LINE" -> acceptLine(st)
      [] cmd.name = "SKK_MODE" -> cmdEnableRomaji(st)
      [] cmd.name = "SKK_ROMAJI" -> romajiCall(st, cmd.kana, cmd.key)
      [] cmd.name = "SKK_HENKAN_TRIGGER" -> triggerCall(st, cmd.key)
      [] cmd.name = "SKK_START_HENKAN" -> cmdStartHenkan(st)
      [] cmd.name = "SKK_KAKUTEI" -> cmdKakutei(st)
      [] cmd.name = "SKK_CANCEL" -> cmdCancel(st)
      [] cmd.name = "SKK_LATIN_MODE" -> cmdLatinMode(st)
      [] cmd.name = "SKK_TOGGLE_KANA" -> cmdToggleKana(st)
      [] cmd.name = "SKK_JISX0208_LATIN_MODE" -> cmdJis0208LatinMode(st)
      [] cmd.name = "SKK_JISX0208_LATIN_KAKUTEI" -> jis0208LatinKakutei(st)
      [] cmd.name = "SKK_JISX0208_LATIN_INSERT" -> InsertAndRepaint(st, <<cmd.key>>)
      [] cmd.name = "SKK_ABBREV_MODE" -> cmdAbbrevMode(st)
      [] cmd.name = "SKK_ABBREV_START_HENKAN" -> abbrevStartHenkan(st)
      [] OTHER -> st

\* eval: the key is looked up in the binding table and its command is called
eval(st, input) ==
    call([st EXCEPT !.evalKey = input, !.evalBuf = st.Buffer, !.evalCur = st.Cursor],
         st.keymap[input])

(* --------------------------- session start ----------------------------- *)

\* candidate glyphs: opaque kanji
K(i) == 30000 + i

\* the new word typed at the registration prompt
NewWord == <<K(99)>>

\* the dictionaries of the sessions the model explores, as lists of
\* <<store, reading, entries>>: short lists, one of them shadowed and one
\* under a numeral placeholder; lists only the System store holds; a list
\* long enough for three paging windows; a User list of one candidate
dictionary(sc) ==
    IF sc = 1
    THEN << <<"User",   <<HiraA>>,        << <<K(1), Semicolon, 110>>, <<K(2)>> >> >>,
            <<"System", <<HiraA>>,        << <<K(3)>> >> >>,
            <<"System", <<HiraA, 97>>,    << <<K(4)>> >> >>,
            <<"System", <<HiraA, Sharp>>, << <<Sharp, 48, K(5)>>,
                                             <<Sharp, 49, Semicolon, 110>>,
                                             <<Sharp, 50, Sharp, 51>> >> >> >>
    ELSE IF sc = 2
    THEN << <<"System", <<HiraA>>,        << <<K(3)>>, <<K(7)>>, <<K(8)>> >> >>,
            <<"System", <<HiraA, 97>>,    << <<K(4), Semicolon, 110>>, NewWord,
                                             <<K(6)>>, <<K(9)>> >> >> >>
    ELSE IF sc = 3
    THEN << <<"System", <<HiraA, 97>>,
              [i \in 1..13 |-> IF i \in {2, 5} THEN <<K(10 + i), Semicolon, 110>>
                               ELSE <<K(10 + i)>>] >> >>
    ELSE << <<"User",   <<HiraA>>,        << <<K(1)>> >> >> >>

Scenarios == {1, 2, 3, 4}

mapSet(m, k, v) == [r \in DOMAIN m \cup {k} |-> IF r = k THEN v ELSE m[r]]

mapDelete(m, k) == [r \in DOMAIN m \ {k} |-> m[r]]

\* the capacity of a slice that n appends to a nil slice have built
RECURSIVE builtCap(_, _)
builtCap(c, n) == IF c >= n THEN c ELSE builtCap(growCap(c), n)

\* a list read from a dictionary file: its entries appended one by one to a
\* nil slice, which leaves them in an array of the capacity append grew it to
loadList(h, xs) ==
    LET a == newAddr(h)
    IN [heap |-> [h EXCEPT ![a] = xs \o zeros(builtCap(0, Len(xs)) - Len(xs))],
        list |-> [ptr |-> a, len |-> Len(xs)]]

RECURSIVE loadAll(_, _)
loadAll(m, items) ==
    IF items = <<>> THEN m
    ELSE LET it == Head(items)
             l  == loadList(m.heap, it[3])
         IN loadAll([heap |-> l.heap,
                     User |-> IF it[1] = "User" THEN mapSet(m.User, it[2], l.list) ELSE m.User,
                     System |-> IF it[1] = "System" THEN mapSet(m.System, it[2], l.list)
                                ELSE m.System],
                    Tail(items))

loaded(sc) == loadAll([heap |-> [a \in Addr |-> <<>>], User |-> <<>>, System |-> <<>>],
                      dictionary(sc))

\* the lists a store shows, reading by reading
contents(h, m) == [r \in DOMAIN m |-> elems(h, m[r])]

noEvent ==
    [how |-> "none", key |-> -1, pos |-> -1, cand |-> <<>>, postfix |-> <<>>,
     source |-> <<>>, shown |-> <<>>, buf |-> <<>>, cur |-> 0, evalKey |-> -1,
     before |-> <<>>, idx |-> -1, answer |-> <<>>]

\* the record of a step that ended or reverted a conversion with result st:
\* shown is the text that stood behind the marker, buf and cur are the line
\* as the step left it before any re-dispatch
event(how, key, st, cand, before, idx) ==
    [how |-> how, key |-> key, pos |-> markerPos, cand |-> cand, postfix |-> postfix,
     source |-> source,
     shown |-> IF markerPos >= 0 THEN SubSeq(Buffer, markerPos + 2, Cursor) ELSE <<>>,
     buf |-> IF st.evalKey >= 0 THEN st.evalBuf ELSE st.Buffer,
     cur |-> IF st.evalKey >= 0 THEN st.evalCur ELSE st.Cursor,
     evalKey |-> st.evalKey, before |-> before, idx |-> idx, answer |-> <<>>]

\* the record of a step that put the literal reading back: no candidate was
\* committed
reverted(key, st) ==
    [noEvent EXCEPT !.how = "revert", !.key = key, !.pos = markerPos, !.source = source,
                    !.buf = st.Buffer, !.cur = st.Cursor]

Init ==
    /\ scenario \in Scenarios
    /\ \E m \in {loaded(scenario)} :
           /\ User = m.User
           /\ System = m.System
           /\ heap = m.heap
    /\ Buffer = <<>>
    /\ Cursor = 0
    /\ keymap = hostKeyMap
    /\ saveMap = <<>>
    /\ kana = ""
    /\ pc = "idle"
    /\ markerPos = -1
    /\ source = <<>>
    /\ postfix = <<>>
    /\ list = nilSlice
    /\ current = 0
    /\ edits = 0
    /\ advances = -1
    /\ last = noEvent

\* the next state: the handler's result st, the stores U and S, the heap h;
\* a conversion that ends returns to the command that started it
install(st, U, S, h, ev) ==
    LET back == st.pc \in {"idle", "panic"}
        l    == IF back THEN nilSlice ELSE st.list
        r    == IF pc # "idle" THEN resumed(st) ELSE st
    IN /\ User' = U
       /\ System' = S
       /\ heap' = collect(h, U, S, l)
       /\ Buffer' = st.Buffer
       /\ Cursor' = st.Cursor
       /\ keymap' = r.keymap
       /\ saveMap' = r.saveMap
       /\ kana' = r.kana
       /\ pc' = st.pc
       /\ markerPos' = IF back THEN -1 ELSE st.markerPos
       /\ source' = IF back THEN <<>> ELSE st.source
       /\ postfix' = IF back THEN <<>> ELSE st.postfix
       /\ list' = l
       /\ current' = IF back THEN 0 ELSE st.current
       /\ last' = ev
       /\ scenario' = scenario

\* a step that changes no store
step(st, ev) == install(st, User, System, st.heap, ev)

\* enough free arrays for the allocations of one step
hasRoom == Cardinality(freeAddrs(heap)) >= 2

(* ------------------------- keys while editing -------------------------- *)

\* the keys pressed while the editor dispatches through its binding table
IdleKeys == {CtrlG, CtrlJ, CtrlM, Space, 53, 65, 97}

\* the line has room for what the command of the key types into it (the
\* only text typed through the host's own bindings is a digit)
fits(st, k) ==
    LET name == st.keymap[k].name
    IN CASE name = "SELF_INSERT" -> isDigit(k) /\ Len(st.Buffer) < MaxBuf
         [] name = "SKK_ROMAJI" -> Len(st.Buffer) < MaxBuf
         [] name = "SKK_HENKAN_TRIGGER" ->
                IF seekMarker(st) >= 0 THEN Len(st.Buffer) <= MaxBuf
                ELSE Len(st.Buffer) + 2 <= MaxBuf
         [] name = "SKK_START_HENKAN" -> seekMarker(st) >= 0 \/ Len(st.Buffer) < MaxBuf
         [] OTHER -> TRUE

\* between conversions the user types one digit into a marked region that
\* has none, presses an okurigana trigger only behind a reading without
\* digits, and types kana, a space or a new marker outside a region only as
\* the first cell of a line
typed(st, k) ==
    LET name == st.keymap[k].name
    IN CASE name = "SELF_INSERT" ->
                /\ seekMarker(st) >= 0
                /\ \A i \in (seekMarker(st) + 2)..st.Cursor : ~isDigit(st.Buffer[i])
         [] name = "SKK_ROMAJI" -> Len(st.Buffer) = 0
         [] name = "SKK_START_HENKAN" -> seekMarker(st) >= 0 \/ Len(st.Buffer) = 0
         [] name = "SKK_HENKAN_TRIGGER" ->
                IF seekMarker(st) >= 0
                THEN \A i \in (seekMarker(st) + 2)..st.Cursor : ~isDigit(st.Buffer[i])
                ELSE Len(st.Buffer) = 0
         [] OTHER -> TRUE

\* Space presses are counted from the moment the first candidate is shown
counted(st) == IF st.pc = "selecting" THEN 0 ELSE -1

\* the host calls the command of key k; ended says how the command ends a
\* pending region, if it does
dispatch(k, name, ended) ==
    /\ pc = "idle"
    /\ k \in IdleKeys
    /\ keymap[k].name = name
    /\ fits(machine, k)
    /\ typed(machine, k)
    /\ hasRoom
    /\ \E st \in {call(machine, keymap[k])} :
           /\ step(st, IF ended = "" THEN noEvent
                       ELSE event(ended, k, st, <<>>, <<>>, -1))
           /\ advances' = counted(st)
    /\ edits' = edits

KeySelfInsert == \E k \in IdleKeys : dispatch(k, "SELF_INSERT", "")

KeyAcceptLine == \E k \in IdleKeys : dispatch(k, "ACCEPT_LINE", "")

KeyEnable == \E k \in IdleKeys : dispatch(k, "SKK_MODE", "")

KeyRomaji == \E k \in IdleKeys : dispatch(k, "SKK_ROMAJI", "")

KeyTrigger == \E k \in IdleKeys : dispatch(k, "SKK_HENKAN_TRIGGER", "")

KeyStartHenkan == \E k \in IdleKeys : dispatch(k, "SKK_START_HENKAN", "")

KeyKakutei ==
    \E k \in IdleKeys :
        dispatch(k, "SKK_KAKUTEI", IF seekMarker(machine) < 0 THEN "" ELSE "kakutei")

KeyCancel ==
    \E k \in IdleKeys :
        dispatch(k, "SKK_CANCEL", IF seekMarker(machine) < 0 THEN "" ELSE "cancel")

(* --------------------------- henkanMode: keys -------------------------- *)

\* the candidate at index current, without its annotation
candidate == Cut(elems(heap, list)[current + 1])

\* the literal reading put back without its marker
revertUnmarked(st) ==
    [ReplaceAndRepaint(st, st.markerPos, st.source) EXCEPT !.pc = "idle"]

\* the buffer goes back to the pending marker and the literal reading
revert(st) ==
    [ReplaceAndRepaint(st, st.markerPos, <<markerWhite>> \o st.source) EXCEPT !.pc = "idle"]

\* ^G: back to Composing
SelCancel ==
    /\ pc = "selecting"
    /\ \E st \in {revert(machine)} : step(st, reverted(CtrlG, st))
    /\ advances' = -1
    /\ edits' = edits

\* any other control key: the marker is removed and the key is dropped
selControl(st, input) == [removeOne(st, st.markerPos) EXCEPT !.pc = "idle"]

SelControl ==
    \E input \in {CtrlJ, CtrlM} :
        /\ pc = "selecting"
        /\ input # CtrlG /\ input < Space
        /\ \E st \in {selControl(machine, input)} :
               step(st, event("control", input, st, candidate, elems(heap, list), current))
        /\ advances' = -1
        /\ edits' = edits

\* Space with the paging threshold tested before the end of the list
selSpacePagingFirst(st) ==
    LET c == st.current + 1
        s1 == [st EXCEPT !.current = c]
    IN IF c >= listingStartIndex THEN [s1 EXCEPT !.pc = "paging"]
       ELSE IF c >= st.list.len THEN [s1 EXCEPT !.pc = "registering"]
       ELSE ReplaceAndRepaint(s1, st.markerPos, display(s1, st.list, c))

\* Space: the next candidate, the paging prompt, or the registration prompt
selSpace(st) ==
    LET c == st.current + 1
        s1 == [st EXCEPT !.current = c]
    IN IF c >= st.list.len THEN [s1 EXCEPT !.pc = "registering"]
       ELSE IF c >= listingStartIndex THEN [s1 EXCEPT !.pc = "paging"]
       ELSE ReplaceAndRepaint(s1, st.markerPos, display(s1, st.list, c))

SelSpace ==
    /\ pc = "selecting"
    /\ \E st \in {selSpace(machine)} : step(st, noEvent)
    /\ advances' = IF advances >= 0 THEN advances + 1 ELSE -1
    /\ edits' = edits

\* x: the candidate before, or back to Composing
selBack(st) ==
    LET c == st.current - 1
        s1 == [st EXCEPT !.current = c]
    IN IF c < 0 THEN revert(st)
       ELSE ReplaceAndRepaint(s1, st.markerPos, display(s1, st.list, c))

SelBack ==
    /\ pc = "selecting"
    /\ \E st \in {selBack(machine)} :
           step(st, IF st.pc = "idle" THEN reverted(120, st)
                    ELSE noEvent)
    /\ advances' = -1
    /\ edits' = edits

\* X: the purge prompt
SelPurge ==
    /\ pc = "selecting"
    /\ step([machine EXCEPT !.pc = "purging"], noEvent)
    /\ advances' = -1
    /\ edits' = edits

\* any other key: the marker is removed and the key is dispatched
selCommit(st) == [removeOne(st, st.markerPos) EXCEPT !.pc = "idle"]

selOther(st, input) == eval(selCommit(st), input)

\* the user goes straight on to the next word (a trigger key pressed
\* while selecting) only from the single candidate of a plain reading that
\* starts the line
onlyChoice == current = 0 /\ markerPos = 0 /\ postfix = <<>> /\ list.len = 1

SelOther ==
    \E input \in {65, 97} :
        /\ pc = "selecting"
        /\ ~(input < Space) /\ input \notin {Space, 120, 88}
        /\ fits(selCommit(machine), input)
        /\ input = 65 => onlyChoice
        /\ hasRoom
        /\ \E st \in {selOther(machine, input)} :
               /\ step(st, event("printable", input, st, candidate, elems(heap, list), current))
               /\ advances' = counted(st)
        /\ edits' = edits

(* ------------------------------- Paging -------------------------------- *)

\* the index after the last candidate the window at current shows
windowEnd(st) ==
    IF st.current + Len(pagingKeys) <= st.list.len
    THEN st.current + Len(pagingKeys) ELSE st.list.len

\* a direct selection key: the candidate of its slot is committed; a slot
\* past the end of the list is an index out of range
pageDirect(st, key) ==
    LET i == st.current + pagingIndex(key)
    IN IF i >= st.list.len THEN [st EXCEPT !.pc = "panic"]
       ELSE [ReplaceAndRepaint(st, st.markerPos, Cut(elems(st.heap, st.list)[i + 1]))
               EXCEPT !.pc = "idle"]

PageDirect ==
    \E key \in {97, 115, 58} :
        /\ pc = "paging"
        /\ pagingIndex(key) >= 0
        /\ \E st \in {pageDirect(machine, key)} :
               step(st, IF st.pc = "panic" THEN noEvent
                        ELSE event("direct", key, st,
                                   Cut(elems(heap, list)[current + pagingIndex(key) + 1]),
                                   elems(heap, list), current + pagingIndex(key)))
        /\ advances' = -1
        /\ edits' = edits

\* Space: the next window
pageSpace(st) == [st EXCEPT !.current = windowEnd(st)]

PageSpace ==
    /\ pc = "paging"
    /\ \E st \in {pageSpace(machine)} : step(st, noEvent)
    /\ advances' = IF advances >= 0 /\ advances < list.len THEN advances + 1 ELSE -1
    /\ edits' = edits

\* x: the window before, or out of paging with the buffer as it is
pageBack(st) ==
    LET c == st.current - Len(pagingKeys)
    IN IF c < listingStartIndex
       THEN [st EXCEPT !.current = IF c < 0 THEN 0 ELSE c, !.pc = "selecting"]
       ELSE [st EXCEPT !.current = c]

PageBack ==
    /\ pc = "paging"
    /\ \E st \in {pageBack(machine)} : step(st, noEvent)
    /\ advances' = -1
    /\ edits' = edits

PageCancel ==
    /\ pc = "paging"
    /\ \E st \in {revert(machine)} : step(st, reverted(CtrlG, st))
    /\ advances' = -1
    /\ edits' = edits

(* ----------------------------- Registering ----------------------------- *)

\* what the registration prompt may return: nothing, a word, or the line of
\* a nested session accepted with a region still pending
Answers == {<<>>, NewWord, <<markerWhite, HiraA>>}

\* newCandidate without the loop that skips a word the list already holds
newCandidateAgain(U, S, h, src, newWord) ==
    LET r   == lookup(U, S, h, src)
        old == elems(r.heap, r.list)
        a   == append(r.heap, r.list, <<>>)
        arr == a.heap[a.list.ptr]
        n   == r.list.len
    IN [User |-> mapSet(U, src, a.list),
        heap |-> [a.heap EXCEPT ![a.list.ptr] =
                     <<newWord>> \o SubSeq(arr, 1, n) \o SubSeq(arr, n + 2, Len(arr))],
        inserted |-> TRUE, before |-> old]

\* newCandidate after the prompt has returned newWord without error: the
\* stores, the heap and whether the word was inserted
newCandidate(U, S, h, src, newWord) ==
    LET r   == lookup(U, S, h, src)
        old == elems(r.heap, r.list)
        a   == append(r.heap, r.list, <<>>)
        arr == a.heap[a.list.ptr]
        n   == r.list.len
    IN IF \E i \in 1..Len(old) : old[i] = newWord
       THEN [User |-> U, heap |-> h, inserted |-> FALSE, before |-> old]
       ELSE [User |-> mapSet(U, src, a.list),
             heap |-> [a.heap EXCEPT ![a.list.ptr] =
                          <<newWord>> \o SubSeq(arr, 1, n) \o SubSeq(arr, n + 2, Len(arr))],
             inserted |-> TRUE, before |-> old]

\* the buffer after a registration: the new word replaces the region
registered(st, newWord) ==
    [ReplaceAndRepaint(st, st.markerPos, newWord) EXCEPT !.pc = "idle"]

RegisterAnswer ==
    \E newWord \in Answers, err \in BOOLEAN :
        /\ pc = "registering"
        /\ hasRoom
        /\ advances' = -1
        /\ IF err \/ Len(newWord) <= 0
           THEN /\ \E st \in {revert(machine)} :
                       step(st, reverted(-1, st))
                /\ edits' = edits
           ELSE \E nc \in {newCandidate(User, System, heap, source, newWord)},
                   st \in {registered(machine, newWord)} :
                   /\ nc.inserted => edits < MaxEdits
                   /\ install(st, nc.User, System, nc.heap,
                              event("registered", -1, st, newWord, nc.before, -1))
                   /\ edits' = IF nc.inserted THEN edits + 1 ELSE edits

(* ------------------------------- Purging ------------------------------- *)

\* what the confirmation prompt may return: "y", "yes", "ye", "n", ""
Confirmations == {<<121>>, <<121, 101, 115>>, <<121, 101>>, <<110>>, <<>>}

\* a confirmation that takes every answer beginning with "y"
confirmedByPrefix(ans, err) == ~err /\ Len(ans) >= 1 /\ ans[1] = 121

\* err == nil and ans == "y" || ans == "yes"
confirmed(ans, err) == ~err /\ (ans = <<121>> \/ ans = <<121, 101, 115>>)

\* the record of a purge prompt left without a confirmation
declined == [noEvent EXCEPT !.how = "declined"]

\* the purge without copy(list[current:], list[current+1:]): the list is
\* only cut by one
purgeLast(U, h, src, l, c) ==
    IF l.len <= 1 THEN [User |-> mapDelete(U, src), heap |-> h]
    ELSE [User |-> mapSet(U, src, [ptr |-> l.ptr, len |-> l.len - 1]), heap |-> h]

\* the purge without delete(M.User, source): the last candidate is cut off
\* and the empty list is stored
purgeToEmpty(U, h, src, l, c) ==
    LET arr == h[l.ptr]
        n   == l.len
    IN [User |-> mapSet(U, src, [ptr |-> l.ptr, len |-> n - 1]),
        heap |-> IF c + 1 < n
                 THEN [h EXCEPT ![l.ptr] = SubSeq(arr, 1, c) \o SubSeq(arr, c + 2, n)
                                             \o SubSeq(arr, n, Len(arr))]
                 ELSE h]

\* the confirmed purge: the stores and the heap afterwards
purge(U, h, src, l, c) ==
    LET arr == h[l.ptr]
        n   == l.len
    IN IF n <= 1 THEN [User |-> mapDelete(U, src), heap |-> h]
       ELSE [User |-> mapSet(U, src, [ptr |-> l.ptr, len |-> n - 1]),
             heap |-> IF c + 1 < n
                      THEN [h EXCEPT ![l.ptr] = SubSeq(arr, 1, c) \o SubSeq(arr, c + 2, n)
                                                  \o SubSeq(arr, n, Len(arr))]
                      ELSE h]

\* the buffer after a confirmed purge: the region is emptied
purged(st) == [ReplaceAndRepaint(st, st.markerPos, <<>>) EXCEPT !.pc = "idle"]

PurgeAnswer ==
    \E ans \in Confirmations, err \in BOOLEAN :
        /\ pc = "purging"
        /\ advances' = -1
        /\ IF confirmed(ans, err)
           THEN \E p \in {purge(User, heap, source, list, current)}, st \in {purged(machine)} :
                   /\ edits < MaxEdits
                   /\ install(st, p.User, System, p.heap,
                              [event("purged", -1, st, elems(heap, list)[current + 1],
                                     elems(heap, list), current) EXCEPT !.answer = ans])
                   /\ edits' = edits + 1
           ELSE /\ step([machine EXCEPT !.pc = "selecting"], declined)
                /\ edits' = edits

(* ---------------------------- specification ---------------------------- *)

Next ==
    \/ KeySelfInsert
    \/ KeyAcceptLine
    \/ KeyEnable
    \/ KeyRomaji
    \/ KeyTrigger
    \/ KeyStartHenkan
    \/ KeyKakutei
    \/ KeyCancel
    \/ SelCancel
    \/ SelControl
    \/ SelSpace
    \/ SelBack
    \/ SelPurge
    \/ SelOther
    \/ PageDirect
    \/ PageSpace
    \/ PageBack
    \/ PageCancel
    \/ RegisterAnswer
    \/ PurgeAnswer

Spec == Init /\ [][Next]_vars

TypeOK ==
    /\ hasRoom
    /\ pc \in {"idle", "selecting", "paging", "registering", "purging", "panic"}
    /\ Cursor \in 0..Len(Buffer)
    /\ edits \in 0..MaxEdits
    /\ pc \in {"selecting", "purging"} => current < list.len

(* ------------------------ the modes on their own ------------------------ *)

\* the bindings an application has made before the input method is enabled:
\* the host's own, with Space and l bound to commands of the application in
\* some sessions
HostScenarios == 0..3

hostBindings(sc) ==
    [k \in Keys |->
        IF k = Space /\ sc \in {1, 3} THEN command("HOST_COMPLETE", 0)
        ELSE IF k = 108 /\ sc \in {2, 3} THEN command("HOST_CLEAR", 0)
        ELSE hostKeyMap[k]]

\* a session with empty dictionaries
KmInit ==
    /\ scenario \in HostScenarios
    /\ User = <<>>
    /\ System = <<>>
    /\ heap = [a \in Addr |-> <<>>]
    /\ Buffer = <<>>
    /\ Cursor = 0
    /\ keymap = hostBindings(scenario)
    /\ saveMap = <<>>
    /\ kana = ""
    /\ pc = "idle"
    /\ markerPos = -1
    /\ source = <<>>
    /\ postfix = <<>>
    /\ list = nilSlice
    /\ current = 0
    /\ edits = 0
    /\ advances = -1
    /\ last = noEvent

\* the keys that change the mode: ^G ^J Space / L l q
KmKeys == {CtrlG, CtrlJ, Space, 47, 76, 108, 113}

\* the record of a key the host dispatched
pressed(k) == [noEvent EXCEPT !.how = "key", !.key = k]

\* the host calls the command named name of key k
press(k, name) ==
    /\ pc = "idle"
    /\ keymap[k].name = name
    /\ Len(Buffer) < MaxBuf
    /\ hasRoom
    /\ \E st \in {call(machine, keymap[k])} : step(st, pressed(k))
    /\ advances' = -1
    /\ edits' = edits

KmEnable == \E k \in KmKeys : press(k, "SKK_MODE")

KmKakutei == \E k \in KmKeys : press(k, "SKK_KAKUTEI")

KmCancel == \E k \in KmKeys : press(k, "SKK_CANCEL")

KmStartHenkan == \E k \in KmKeys : press(k, "SKK_START_HENKAN")

KmLatin == \E k \in KmKeys : press(k, "SKK_LATIN_MODE")

KmToggle == \E k \in KmKeys : press(k, "SKK_TOGGLE_KANA")

KmJisLatin == \E k \in KmKeys : press(k, "SKK_JISX0208_LATIN_MODE")

KmJisKakutei == \E k \in KmKeys : press(k, "SKK_JISX0208_LATIN_KAKUTEI")

KmAbbrev == \E k \in KmKeys : press(k, "SKK_ABBREV_MODE")

KmAbbrevStart == \E k \in KmKeys : press(k, "SKK_ABBREV_START_HENKAN")

\* the mode keys, and the keys and answers that end the conversions the
\* abbreviation mode and Space start
KmNext ==
    \/ KmEnable
    \/ KmKakutei
    \/ KmCancel
    \/ KmStartHenkan
    \/ KmLatin
    \/ KmToggle
    \/ KmJisLatin
    \/ KmJisKakutei
    \/ KmAbbrev
    \/ KmAbbrevStart
    \/ SelCancel
    \/ SelControl
    \/ SelSpace
    \/ RegisterAnswer

KeymapSpec == KmInit /\ [][KmNext]_vars

(* ------------------------ lookup on its own --------------------------- *)

\* the longest digit run of a reading
MaxDigits == 2

\* the digit runs of the readings: over "0", "1", "5"
DigitRuns ==
    UNION {[1..n -> {48, 49, 53}] : n \in 1..MaxDigits}

\* the stored candidates: '#' with each digit, alone and inside text with an
\* annotation, and candidates without a code
NumTemplates ==
    {<<Sharp, c>> : c \in 48..57}
        \union {<<K(1), Sharp, c, K(2), Semicolon, 110>> : c \in 48..51}
        \union {<<K(1)>>, <<Sharp>>}

\* a reading around the digit run d: kana before it, kana after it, or a
\* second run after the kana
numReading(shape, d) ==
    CASE shape = 1 -> <<HiraA>> \o d
      [] shape = 2 -> d \o <<HiraA>>
      [] shape = 3 -> d \o <<HiraA, 53>>

\* the reading with its first digit run replaced by '#'
numKey(shape) ==
    CASE shape = 1 -> <<HiraA, Sharp>>
      [] shape = 2 -> <<Sharp, HiraA>>
      [] shape = 3 -> <<Sharp, HiraA, 53>>

\* the stores of a lookup: one candidate list under the placeholder reading
\* in store st, and an exact entry for the reading itself when exact
numDictionary(shape, d, t, st, exact) ==
    << <<st, numKey(shape), <<t, <<K(3)>> >> >> >>
        \o (IF exact THEN << <<"System", numReading(shape, d), << <<K(4)>> >> >> >> ELSE <<>>)

NumInit ==
    /\ scenario = 0
    /\ \E shape \in 1..3, d \in DigitRuns, t \in NumTemplates,
          st \in {"User", "System"}, exact \in BOOLEAN :
           /\ source = numReading(shape, d)
           /\ \E m \in {loadAll([heap |-> [a \in Addr |-> <<>>], User |-> <<>>,
                                   System |-> <<>>],
                                  numDictionary(shape, d, t, st, exact))} :
                  /\ User = m.User
                  /\ System = m.System
                  /\ heap = m.heap
    /\ Buffer = <<>>
    /\ Cursor = 0
    /\ keymap = hostKeyMap
    /\ saveMap = <<>>
    /\ kana = ""
    /\ pc = "idle"
    /\ markerPos = -1
    /\ postfix = <<>>
    /\ list = nilSlice
    /\ current = 0
    /\ edits = 0
    /\ advances = -1
    /\ last = noEvent

\* list, found := M.lookup(source)
NumLookup ==
    /\ pc = "idle"
    /\ \E r \in {lookup(User, System, heap, source)} :
           /\ list' = r.list
           /\ heap' = r.heap
           /\ pc' = IF r.ok THEN "found" ELSE "notfound"
    /\ UNCHANGED <<User, System, Buffer, Cursor, keymap, saveMap, kana, markerPos, source,
                   postfix, current, scenario, edits, advances, last>>

NumNext == NumLookup

NumSpec == NumInit /\ [][NumNext]_vars

(* ------------------------------ properties ----------------------------- *)

\* the list a lookup of reading src returns now (<<>> when it finds none)
found(src) ==
    LET r == lookup(User, System, heap, src)
    IN IF r.ok THEN elems(r.heap, r.list) ELSE <<>>

\* sequence s without its element at index i (0-based)
without(s, i) == SubSeq(s, 1, i) \o SubSeq(s, i + 2, Len(s))

\* the number of marker glyphs in a line
markers(buf) == Cardinality({i \in 1..Len(buf) : isMarker(buf[i])})

\* the text a step left between the marker position and the cursor
inserted(ev) == SubSeq(ev.buf, ev.pos + 1, ev.cur)

\* C1 (as the code has it): counting Space presses from the first candidate
\* of a found list L, a list of at most listingStartIndex candidates shows
\* candidate i after i presses and is in Registering after len(L) presses; a
\* longer list shows candidate i after i < listingStartIndex presses and is
\* in Paging from the listingStartIndex-th press on.
C1_Advancing ==
    advances >= 0 =>
        IF list.len <= listingStartIndex
        THEN /\ advances < list.len =>
                    /\ pc = "selecting"
                    /\ current = advances
                    /\ SubSeq(Buffer, markerPos + 1, Cursor) = display(machine, list, advances)
             /\ advances >= list.len => pc = "registering" /\ advances = list.len
        ELSE /\ advances < listingStartIndex => pc = "selecting" /\ current = advances
             /\ advances >= listingStartIndex => pc = "paging"

\* C1 (as the code has it): Registering is left only by the answer of its
\* prompt, to the committed new word or back to Composing, never to a
\* candidate of L.
C1_LeavingRegistering ==
    pc = "registering" => pc' = "idle" /\ last'.how \in {"registered", "revert"}

C2_SystemUnchanged ==
    contents(heap, System) = contents(loaded(scenario).heap, loaded(scenario).System)

C4_OnlyCandidateGone ==
    last.how = "purged" /\ Len(last.before) = 1 =>
        \A i \in 1..Len(found(last.source)) : found(last.source)[i] # last.cand

\* C5: after a confirmed purge from a list of two or more candidates a
\* lookup of the reading returns the former list without the selected
\* candidate, the others in their order.
C5_OneRemoved ==
    last.how = "purged" /\ Len(last.before) >= 2 =>
        found(last.source) = without(last.before, last.idx)

\* C5 case: a candidate that is neither the first nor the last was purged
C5_Witness ==
    last.how = "purged" /\ last.idx >= 1 /\ last.idx + 1 < Len(last.before)

\* the ways a conversion ends that C6 names
Ended == {"control", "printable", "direct", "registered", "kakutei", "cancel", "purged"}

\* C6 as stated: the line a conversion leaves when it ends by commit, cancel
\* or purge holds no marker, and the line never holds more than one marker.
C6_Marker ==
    /\ markers(Buffer) <= 1
    /\ last.how \in Ended => markers(last.buf) = 0

\* C7 as stated: Paging never shows a window that starts at the end of the
\* list (Space from the last window enters Registering).
C7_NoEmptyWindow == pc = "paging" => current < list.len

\* the words a commit may leave: the candidates of the list and the word of
\* the event
words(ev) == {Cut(ev.before[i]) : i \in 1..Len(ev.before)} \union {ev.cand}

\* C8 as stated: every commit leaves a candidate followed by the postfix at
\* the place of the region.
C8_PostfixCommitted ==
    last.how \in {"control", "printable", "direct", "registered"} =>
        \E w \in words(last) : inserted(last) = w \o last.postfix

\* C9 as stated: the control key that committed the candidate is dispatched
\* as a command afterwards.
C9_Redispatched == last.how = "control" => last.evalKey = last.key

\* C10 as stated: a printable key other than Space, x and X leaves the
\* displayed candidate (with its postfix) in place of the region, and the
\* key is then dispatched on a line that holds no marker.
C10_CommitThenDispatch ==
    last.how = "printable" =>
        /\ last.evalKey = last.key
        /\ last.key \notin {Space, 120, 88}
        /\ markers(last.buf) = 0
        /\ inserted(last) = last.shown
        /\ \E w \in words(last) : last.shown = w \o last.postfix

(* ------------------------ properties of lookup ------------------------- *)

\* the first digit run of a reading
run(src) == SubSeq(src, rxNumberLoc(src).lo + 1, rxNumberLoc(src).hi)

\* the reading with its first digit run replaced by '#'
placeholder(src) ==
    SubSeq(src, 1, rxNumberLoc(src).lo) \o <<Sharp>>
        \o SubSeq(src, rxNumberLoc(src).hi + 1, Len(src))

\* the candidate list stored under the placeholder of the reading looked up
stored == elems(heap, _lookup(User, System, placeholder(source)).list)

\* the lookup found the reading through its placeholder
viaPlaceholder == pc = "found" /\ ~_lookup(User, System, source).ok

\* the kanji numerals of the digits 0..9
kanjiDigits == <<12295, 19968, 20108, 19977, 22235, 20116, 20845, 19971, 20843, 20061>>

\* what a style code stands for, for the digits d
rendering(c, d) ==
    CASE c = 48 -> d
      [] c = 49 -> [i \in 1..Len(d) |-> d[i] + 65248]
      [] c \in {50, 51} -> [i \in 1..Len(d) |-> kanjiDigits[d[i] - 47]]

\* entry e holds '#' once, at index k, followed by c
codeAt(e, k, c) ==
    /\ k < Len(e)
    /\ e[k] = Sharp
    /\ e[k + 1] = c
    /\ \A j \in 1..Len(e) : e[j] = Sharp => j = k

storeArrays(U, S) == {U[r].ptr : r \in DOMAIN U} \cup {S[r].ptr : r \in DOMAIN S}

\* C12: a lookup leaves both stores as they were, reading by reading and
\* candidate by candidate, for readings found directly, found through the
\* placeholder and not found; the candidates expanded for a placeholder are
\* returned in a list of their own, in an array no store refers to.
C12_StoresKept ==
    [][pc = "idle" /\ pc' # "idle" =>
          /\ contents(heap', User') = contents(heap, User)
          /\ contents(heap', System') = contents(heap, System)
          /\ (pc' = "found" /\ ~_lookup(User, System, source).ok =>
                 /\ list'.ptr \notin storeArrays(User', System')
                 /\ heap[list'.ptr] = <<>>)]_vars

\* C12 case: a lookup through the placeholder has returned candidates that
\* differ from the stored ones
C12_Witness ==
    /\ viaPlaceholder
    /\ stored[1] = <<Sharp, 49>>
    /\ elems(heap, list)[1] # stored[1]
    /\ list.ptr \notin storeArrays(User, System)

\* C20: in a candidate found through the placeholder, a code of '#' and a
\* digit that is none of the styles 0, 1, 2, 3 is replaced by the digit run
\* of the reading as it stands, so that no such code is left in a returned
\* candidate.
C20_Verbatim ==
    viaPlaceholder =>
        \A i \in 1..Len(stored), c \in 52..57 : \A k \in 1..Len(stored[i]) :
            codeAt(stored[i], k, c) =>
                elems(heap, list)[i] =
                    SubSeq(stored[i], 1, k - 1) \o run(source)
                        \o SubSeq(stored[i], k + 2, Len(stored[i]))

(* ---------------------- properties of conversions ---------------------- *)

\* the runes of a text
runes(s) == {s[i] : i \in 1..Len(s)}

\* C13: whichever way a candidate of the list is committed, the text left in
\* place of the region is the part of an entry before its ';' (followed by
\* the okurigana postfix when a key commits the displayed candidate; for a
\* direct selection it is the entry of the key's slot), and no annotation
\* enters the line.
C13_NoAnnotation ==
    /\ last.how \in {"control", "printable"} =>
           /\ \E i \in 1..Len(last.before) :
                  inserted(last) = Cut(last.before[i]) \o last.postfix
           /\ Semicolon \notin runes(last.buf)
    /\ last.how = "direct" =>
           /\ inserted(last) = Cut(last.before[last.idx + 1])
           /\ Semicolon \notin runes(last.buf)

\* C13 case: an annotated entry has been committed by its direct selection
\* key
C13_Witness ==
    /\ last.how = "direct"
    /\ Semicolon \in runes(last.before[last.idx + 1])
    /\ inserted(last) = <<K(15)>>

\* the line with the region from the marker position to the cursor replaced
\* by the pending marker and the reading
composing ==
    SubSeq(Buffer, 1, markerPos) \o <<markerWhite>> \o source
        \o SubSeq(Buffer, Cursor + 1, Len(Buffer))

\* C14: the registration prompt ends either with a word, which replaces the
\* region, or (empty answer, prompt failure) with the line back to the
\* pending marker followed by the reading, the editor composing again and
\* the User store as it was; and a conversion request opens the
\* registration prompt at once exactly when the reading is in no store.
C14_Registering ==
    [][/\ pc = "registering" =>
              \/ last'.how = "registered" /\ last'.cand # <<>>
              \/ /\ last'.how = "revert"
                 /\ Buffer' = composing
                 /\ Cursor' = markerPos + 1 + Len(source)
                 /\ pc' = "idle"
                 /\ User' = User
                 /\ contents(heap', User') = contents(heap, User)
       /\ pc = "idle" /\ pc' \in {"selecting", "registering"} =>
              (pc' = "registering") = ~lookup(User, System, heap, source').ok]_vars

\* C14 case: the prompt for a reading no store holds has been left without a
\* word, and the line holds the pending marker and the reading again
C14_Witness ==
    /\ last.how = "revert"
    /\ last.key = -1
    /\ ~lookup(User, System, heap, last.source).ok
    /\ Buffer = <<markerWhite>> \o last.source
    /\ pc = "idle"

\* C16: no key pressed at the paging prompt makes the controller index the
\* candidate list past its end: a direct selection key whose slot holds no
\* candidate does not abort the session.
C16_InBounds == pc # "panic"

\* C17: while the controller waits in Selecting, the line shows the
\* candidate at the index current (cut at its ';') and the postfix behind
\* the selecting marker, also after the back key has left the paging prompt.
C17_ShowsCurrent ==
    pc = "selecting" =>
        SubSeq(Buffer, markerPos + 1, Cursor) = display(machine, list, current)

\* the readings looked up: those of the stores, the one being converted, and
\* readings with a digit and with an okurigana consonant
probes ==
    DOMAIN User \cup DOMAIN System
        \cup {source, <<HiraA>>, <<HiraA, 53>>, <<HiraA, 97>>}

\* C19: in every state a session reaches from stores without an empty list,
\* through registrations and purges, no store holds an empty list, a lookup
\* that reports found returns at least one candidate, and the list a
\* conversion browses is not empty.
C19_FoundNonEmpty ==
    /\ \A r \in DOMAIN User : User[r].len >= 1
    /\ \A r \in DOMAIN System : System[r].len >= 1
    /\ \A src \in probes :
           \E r \in {lookup(User, System, heap, src)} : r.ok => r.list.len >= 1
    /\ pc \in {"selecting", "paging", "purging"} => list.len >= 1

\* C19 case: the only candidate of a User list has been purged, and the
\* reading is not found any more
C19_Witness ==
    /\ last.how = "purged"
    /\ Len(last.before) = 1
    /\ scenario = 4
    /\ ~lookup(User, System, heap, last.source).ok

\* C18: the purge prompt ends either with a purge, and then the answer was
\* "y" or "yes" and the prompt did not fail, or with the controller back in
\* Selecting and the User store, the System store, the candidate list, the
\* index current and the line as they were.
C18_Declined ==
    [][pc = "purging" =>
          \/ last'.how = "purged" /\ last'.answer \in {<<121>>, <<121, 101, 115>>}
          \/ /\ last'.how = "declined"
             /\ pc' = "selecting"
             /\ UNCHANGED <<User, System, heap, list, current, Buffer, Cursor,
                            markerPos, source, postfix>>]_vars

\* C18 case: a purge prompt has been left without a confirmation, and the
\* candidate that was to be purged is still displayed and still in its list
C18_Witness ==
    /\ last.how = "declined"
    /\ pc = "selecting"
    /\ current = 1
    /\ source \in DOMAIN User
    /\ SubSeq(Buffer, markerPos + 1, Cursor) = display(machine, list, current)

(* ------------------------ properties of the modes ----------------------- *)

\* the step calls cmdLatinMode: the key of SKK_LATIN_MODE, or the key of
\* SKK_KAKUTEI or SKK_CANCEL on a line without a region
restoresLatin ==
    /\ pc = "idle"
    /\ last'.how = "key"
    /\ \/ keymap[last'.key].name = "SKK_LATIN_MODE"
       \/ /\ keymap[last'.key].name \in {"SKK_KAKUTEI", "SKK_CANCEL"}
          /\ seekMarker(machine) < 0

\* C15: the snapshot is taken by the first request only, and it is the
\* binding table as the application left it; whatever mode commands came
\* before, a restore-latin leaves every key bound to the command it had
\* then.
C15_Restored ==
    [][/\ saveMap # <<>> => saveMap' = saveMap
       /\ saveMap' # <<>> => saveMap' = hostBindings(scenario)
       /\ restoresLatin => keymap' = hostBindings(scenario)]_vars

\* C15 case: after the katakana toggle and the abbreviation mode, l has put
\* back the bindings of an application that had bound Space and l itself
C15_Witness ==
    /\ scenario = 3
    /\ last.how = "key"
    /\ last.key = 108
    /\ kana = "katakana"
    /\ seekMarker(machine) >= 0
    /\ keymap = hostBindings(3)
    /\ keymap[108].name = "HOST_CLEAR"

====
